---- MODULE Spec2Model ----
\* Model of the resume analyzer (abhi278/career_mgmt):
\*   - ResumeAnalyzer.analyze and its three remote steps
\*     (src/src/resume_analyzer/resume_analyzer.py),
\*   - parse_contents, the upload handler that extracts text through a
\*     temporary file under ./tmp (src/pages/home.py).
\* Text is a sequence of one-character strings, so that strip(), suffix and
\* endswith are computed and not assumed.
EXTENDS Integers, Sequences, FiniteSets, TLC

VARIABLES
    pc,                 \* position of the running analyze call
    in_job,             \* job_description argument as passed by the caller
    in_resume,          \* resume argument as passed by the caller
    job_description,    \* local of analyze after the file-path resolution
    resume,             \* local of analyze after the file-path resolution
    similarity_result,  \* local of analyze: parsed reply of the score step
    skills_result,      \* local of analyze: parsed reply of the skills step
    requests,           \* remote requests issued by the running call, in order
    replies,            \* replies received by the running call, in order
    outcome,            \* "none" | "result" | "error": how the call ended
    results,            \* the record analyze returned
    error,              \* the exception analyze raised
    prev,               \* summary of the previous finished call
    ncalls              \* number of analyze calls started

VARIABLES
    analyzer,           \* module-level analyzer of home.py is not None
    tmp_dir,            \* the directory ./tmp exists
    fs,                 \* the files under ./tmp: path -> [exists, blob]
    u_pc,               \* position of each upload request in parse_contents
    u_filename,         \* filename argument of each request
    u_blob,             \* decoded: the bytes each request uploaded
    u_linked,           \* the file a request has open is still at its path
    u_text,             \* local text of each request
    u_read,             \* the bytes each request's extraction read
    u_wrote,            \* the request has written its temporary file
    u_ret               \* what parse_contents returned to each request

\* One call of ResumeAnalyzer.extract_text_from_file.
VARIABLES
    e_pc,               \* "idle" before the call, "done" after it
    e_path,             \* file_path
    e_exists,           \* os.path.exists(file_path)
    e_blob,             \* the content of the file
    e_res,              \* the text returned or the exception raised
    e_ran               \* the extraction routines and libraries that ran

\* The home page (pages/home.py) in one server process.
VARIABLES
    p_pc,               \* "boot" (module not loaded), "ready", "analyzing"
    env_key,            \* os.getenv("OPENAI_API_KEY")
    arg_key,            \* the api_key argument of ResumeAnalyzer(...)
    api_key,            \* self.api_key of the analyzer
    config_error,       \* the constructor raised ValueError
    job_store,          \* job-content-store
    resume_store,       \* resume-content-store
    results_store,      \* analysis-results-store
    section,            \* what results-section shows
    p_job,              \* job_content of the latest Analyze click
    p_resume,           \* resume_content of the latest Analyze click
    exported            \* the content download_results last returned

avars == <<pc, in_job, in_resume, job_description, resume, similarity_result,
           skills_result, requests, replies, outcome, results, error, prev,
           ncalls>>

uvars == <<analyzer, tmp_dir, fs, u_pc, u_filename, u_blob, u_linked, u_text,
           u_read, u_wrote, u_ret>>

evars == <<e_pc, e_path, e_exists, e_blob, e_res, e_ran>>

pvars == <<p_pc, env_key, arg_key, api_key, config_error, job_store,
           resume_store, results_store, section, p_job, p_resume, exported>>

vars == <<avars, uvars, evars, pvars>>

\* ---------------------------------------------------------------- bounds
MaxCalls == 2       \* analyze calls in one behaviour
MaxOdd == 1         \* deviations of the remote replies from the requested
                    \* shape within one analyze call

\* ------------------------------------------------------------------ text
Whitespace == {" ", "\n", "\t"}

RECURSIVE LStrip(_)
LStrip(s) ==
    IF s = <<>> THEN <<>>
    ELSE IF Head(s) \in Whitespace THEN LStrip(Tail(s)) ELSE s

RECURSIVE RStrip(_)
RStrip(s) ==
    IF s = <<>> THEN <<>>
    ELSE IF s[Len(s)] \in Whitespace THEN RStrip(SubSeq(s, 1, Len(s) - 1))
    ELSE s

\* str.strip()
Strip(s) == RStrip(LStrip(s))

\* str.lower() on the characters the model uses
LowerChar(c) ==
    CASE c = "D" -> "d"
      [] c = "O" -> "o"
      [] c = "C" -> "c"
      [] c = "T" -> "t"
      [] c = "X" -> "x"
      [] c = "P" -> "p"
      [] c = "F" -> "f"
      [] OTHER -> c

Lower(s) == [i \in 1..Len(s) |-> LowerChar(s[i])]

\* index of the last occurrence of character c in s, 0 when there is none
RECURSIVE LastIndex(_, _)
LastIndex(s, c) ==
    IF s = <<>> THEN 0
    ELSE IF s[Len(s)] = c THEN Len(s)
    ELSE LastIndex(SubSeq(s, 1, Len(s) - 1), c)

\* Path(p).name: the final path component
PathName(p) == SubSeq(p, LastIndex(p, "/") + 1, Len(p))

\* Path(p).suffix: from the last dot of the name, unless the name starts with
\* that dot or ends with it
PathSuffix(p) ==
    LET nm == PathName(p)
        d == LastIndex(nm, ".")
    IN IF d > 1 /\ d < Len(nm) THEN SubSeq(nm, d, Len(nm)) ELSE <<>>

\* str.endswith
EndsWith(s, suf) ==
    /\ Len(s) >= Len(suf)
    /\ SubSeq(s, Len(s) - Len(suf) + 1, Len(s)) = suf


\* ---------------------------------------------------------- file content
\* What a file's bytes are to each reader: the raw bytes (text readers), the
\* pages each PDF library yields, the paragraphs and the tables of a DOCX (a
\* table is a sequence of rows, a row a sequence of cell texts).
\* Fail = k > 0: the library raises while reading page k (k = 1: on open).
NoPdf == [valid |-> FALSE, plumber |-> <<>>, plumberFail |-> 0,
          pypdf |-> <<>>, pypdfFail |-> 0]
NoDocx == [valid |-> FALSE, paragraphs |-> <<>>, tables |-> <<>>]

TxtBlob(bytes) == [bytes |-> bytes, pdf |-> NoPdf, docx |-> NoDocx]
PdfBlob(pl, plf, py, pyf) ==
    [bytes |-> <<37, 233>>,
     pdf |-> [valid |-> TRUE, plumber |-> pl, plumberFail |-> plf,
              pypdf |-> py, pypdfFail |-> pyf],
     docx |-> NoDocx]
DocxBlob(ps, ts) ==
    [bytes |-> <<80, 233>>, pdf |-> NoPdf,
     docx |-> [valid |-> TRUE, paragraphs |-> ps, tables |-> ts]]
\* a file that open(path, 'wb') has truncated and nothing was written to yet
EmptyBlob == TxtBlob(<<>>)

\* chr() on the code points the model uses
Chr(cp) ==
    CASE cp = 9 -> "\t"
      [] cp = 10 -> "\n"
      [] cp = 13 -> "\r"
      [] cp = 32 -> " "
      [] cp = 37 -> "%"
      [] cp = 80 -> "P"
      [] cp = 103 -> "g"
      [] cp = 111 -> "o"
      [] cp = 112 -> "p"
      [] cp = 121 -> "y"
      [] cp = 169 -> "(c)"
      [] cp = 195 -> "A~"
      [] cp = 233 -> "e'"
      [] OTHER -> "U+" \o ToString(cp)

IsCont(b) == b >= 128 /\ b <= 191

\* bytes.decode('utf-8'): [ok, text]; ok = FALSE is UnicodeDecodeError
RECURSIVE Utf8Decode(_)
Utf8Decode(bs) ==
    IF bs = <<>> THEN [ok |-> TRUE, text |-> <<>>]
    ELSE
      LET b == bs[1]
          n == IF b < 128 THEN 1
               ELSE IF b >= 194 /\ b <= 223 THEN 2
               ELSE IF b >= 224 /\ b <= 239 THEN 3
               ELSE IF b >= 240 /\ b <= 244 THEN 4
               ELSE 0
          wellFormed ==
              /\ n > 0
              /\ Len(bs) >= n
              /\ \A i \in 2..n : IsCont(bs[i])
              /\ (b = 224 => bs[2] >= 160)
              /\ (b = 237 => bs[2] <= 159)
              /\ (b = 240 => bs[2] >= 144)
              /\ (b = 244 => bs[2] <= 143)
          cp == CASE n = 1 -> b
                  [] n = 2 -> (b - 192) * 64 + (bs[2] - 128)
                  [] n = 3 -> (b - 224) * 4096 + (bs[2] - 128) * 64
                              + (bs[3] - 128)
                  [] OTHER -> (b - 240) * 262144 + (bs[2] - 128) * 4096
                              + (bs[3] - 128) * 64 + (bs[4] - 128)
      IN IF ~wellFormed THEN [ok |-> FALSE, text |-> <<>>]
         ELSE LET rest == Utf8Decode(SubSeq(bs, n + 1, Len(bs)))
              IN IF rest.ok
                 THEN [ok |-> TRUE, text |-> <<Chr(cp)>> \o rest.text]
                 ELSE rest

\* decoding with encoding='latin-1': every byte is its own code point
Latin1Decode(bs) == [i \in 1..Len(bs) |-> Chr(bs[i])]

\* text-mode read (newline=None): "\r\n" and a lone "\r" become "\n"
RECURSIVE UniversalNewlines(_)
UniversalNewlines(s) ==
    IF s = <<>> THEN <<>>
    ELSE IF s[1] = "\r"
         THEN IF Len(s) >= 2 /\ s[2] = "\n"
              THEN <<"\n">> \o UniversalNewlines(SubSeq(s, 3, Len(s)))
              ELSE <<"\n">> \o UniversalNewlines(Tail(s))
         ELSE <<s[1]>> \o UniversalNewlines(Tail(s))

\* Extraction results: [ok, text, cause]; ok = FALSE is a raised exception.
Extracted(t) == [ok |-> TRUE, text |-> t, cause |-> "none"]
Raised(c) == [ok |-> FALSE, text |-> <<>>, cause |-> c]

\* ResumeAnalyzer._extract_from_txt
ExtractFromTxt(blob) ==
    LET u == Utf8Decode(blob.bytes)
    IN IF u.ok THEN Extracted(UniversalNewlines(u.text))
       ELSE Extracted(UniversalNewlines(Latin1Decode(blob.bytes)))

\* the for loop over pdfplumber pages: a page whose text is falsy (None or
\* "", both <<>> here) is skipped, the others are appended with "\n"
RECURSIVE PlumberPages(_, _, _)
PlumberPages(pages, failAt, i) ==
    IF i > Len(pages) \/ i = failAt THEN <<>>
    ELSE (IF pages[i] # <<>> THEN pages[i] \o <<"\n">> ELSE <<>>)
         \o PlumberPages(pages, failAt, i + 1)

\* the for loop over PyPDF2 pages: every page's text is appended with "\n"
RECURSIVE PyPdfPages(_, _, _)
PyPdfPages(pages, failAt, i) ==
    IF i > Len(pages) \/ i = failAt THEN <<>>
    ELSE pages[i] \o <<"\n">> \o PyPdfPages(pages, failAt, i + 1)

Raises(pages, failAt) == failAt >= 1 /\ failAt <= Len(pages) + 1

\* ResumeAnalyzer._extract_from_pdf: text keeps what method 1 gathered when
\* method 1 raises partway or yields only whitespace
ExtractFromPdf(blob) ==
    IF ~blob.pdf.valid THEN Raised("pdf")
    ELSE
      LET p == blob.pdf
          t1 == PlumberPages(p.plumber, p.plumberFail, 1)
          t2 == t1 \o PyPdfPages(p.pypdf, p.pypdfFail, 1)
      IN IF ~Raises(p.plumber, p.plumberFail) /\ Strip(t1) # <<>>
         THEN Extracted(t1)
         ELSE IF Raises(p.pypdf, p.pypdfFail) THEN Raised("pdf")
         ELSE IF Strip(t2) # <<>> THEN Extracted(t2)
         ELSE Raised("pdf")

\* the libraries _extract_from_pdf opens, in order: method 2 is reached
\* unless method 1 has returned
PdfMethods(blob) ==
    LET p == blob.pdf
    IN IF /\ p.valid
          /\ ~Raises(p.plumber, p.plumberFail)
          /\ Strip(PlumberPages(p.plumber, p.plumberFail, 1)) # <<>>
       THEN <<"pdfplumber">>
       ELSE <<"pdfplumber", "PyPDF2">>

\* the elements of a sequence of texts whose strip() is non-empty
RECURSIVE NonBlank(_)
NonBlank(ts) ==
    IF ts = <<>> THEN <<>>
    ELSE (IF Strip(Head(ts)) # <<>> THEN <<Head(ts)>> ELSE <<>>)
         \o NonBlank(Tail(ts))

\* "\n".join over a sequence of texts
RECURSIVE JoinLines(_)
JoinLines(ts) ==
    IF ts = <<>> THEN <<>>
    ELSE IF Len(ts) = 1 THEN ts[1]
    ELSE ts[1] \o <<"\n">> \o JoinLines(Tail(ts))

\* the concatenation of a sequence of sequences
RECURSIVE Concat(_)
Concat(ss) == IF ss = <<>> THEN <<>> ELSE Head(ss) \o Concat(Tail(ss))

\* "for table in doc.tables: for row in table.rows: for cell in row.cells"
TableCells(tables) == Concat(Concat(tables))

\* the extraction with blank table cells kept
ExtractFromDocxBlankCells(blob) ==
    IF ~blob.docx.valid THEN Raised("docx")
    ELSE Extracted(JoinLines(NonBlank(blob.docx.paragraphs)
                             \o TableCells(blob.docx.tables)))

\* ResumeAnalyzer._extract_from_docx
ExtractFromDocx(blob) ==
    IF ~blob.docx.valid THEN Raised("docx")
    ELSE Extracted(JoinLines(NonBlank(blob.docx.paragraphs)
                             \o NonBlank(TableCells(blob.docx.tables))))


\* the dispatch with the extension compared as it is written
RoutineCaseSensitive(path) ==
    LET file_extension == PathSuffix(path)
    IN IF file_extension = <<".", "d", "o", "c">> THEN "none"
       ELSE IF file_extension = <<".", "p", "d", "f">>
            THEN "_extract_from_pdf"
       ELSE IF file_extension = <<".", "d", "o", "c", "x">>
            THEN "_extract_from_docx"
       ELSE "_extract_from_txt"

\* the extraction routine extract_text_from_file hands the file to
\* ("none": it raises before the dispatch)
Routine(path) ==
    LET file_extension == Lower(PathSuffix(path))
    IN IF file_extension = <<".", "d", "o", "c">> THEN "none"
       ELSE IF file_extension = <<".", "p", "d", "f">>
            THEN "_extract_from_pdf"
       ELSE IF file_extension = <<".", "d", "o", "c", "x">>
            THEN "_extract_from_docx"
       ELSE "_extract_from_txt"

\* the extraction with unknown extensions refused
ExtractTextFromFileKnownOnly(path, blob) ==
    LET routine == Routine(path)
        ext == Lower(PathSuffix(path))
    IN IF routine = "none" THEN Raised("legacy_doc")
       ELSE LET e == IF routine = "_extract_from_pdf"
                        THEN ExtractFromPdf(blob)
                     ELSE IF routine = "_extract_from_docx"
                        THEN ExtractFromDocx(blob)
                     ELSE IF ext \in {<<".", "t", "x", "t">>,
                                      <<".", "t", "e", "x", "t">>}
                        THEN ExtractFromTxt(blob)
                     ELSE Raised("unsupported")
            IN IF e.ok THEN e ELSE Raised("read_file")

\* ResumeAnalyzer.extract_text_from_file on an existing file
ExtractTextFromFile(path, blob) ==
    LET routine == Routine(path)
    IN IF routine = "none" THEN Raised("legacy_doc")
       ELSE LET e == IF routine = "_extract_from_pdf"
                        THEN ExtractFromPdf(blob)
                     ELSE IF routine = "_extract_from_docx"
                        THEN ExtractFromDocx(blob)
                     ELSE ExtractFromTxt(blob)
            IN IF e.ok THEN e ELSE Raised("read_file")

\* ------------------------------------------------------------ JSON values
\* A field value: t is the JSON type ("absent": the key is not in the
\* object); n the number, s the characters of a string, l the list items.
Absent == [t |-> "absent", n |-> 0, s |-> <<>>, l |-> <<>>]
Null == [t |-> "null", n |-> 0, s |-> <<>>, l |-> <<>>]
Num(n) == [t |-> "num", n |-> n, s |-> <<>>, l |-> <<>>]
Str(s) == [t |-> "str", n |-> 0, s |-> s, l |-> <<>>]
List(l) == [t |-> "list", n |-> 0, s |-> <<>>, l |-> l]

ScoreKeys == {"similarity_score", "overall_match", "key_strengths",
              "analysis_summary"}
SkillsKeys == {"matching_skills", "missing_skills", "partial_matches"}
RecsKeys == {"recommendations"}
ResultKeys == ScoreKeys \cup SkillsKeys \cup RecsKeys
ListKeys == {"key_strengths", "matching_skills", "missing_skills",
             "partial_matches", "recommendations"}
AllKeys == ResultKeys \cup {"extra"}

Steps == <<"score", "skills", "recs">>
StepKeys(step) ==
    CASE step = "score" -> ScoreKeys
      [] step = "skills" -> SkillsKeys
      [] OTHER -> RecsKeys

\* A parsed reply: a JSON object (o: key -> value) or another JSON value.
EmptyObj == [k \in AllKeys |-> Absent]
Obj(o) == [t |-> "obj", o |-> o]
NonObj(t) == [t |-> t, o |-> EmptyObj]
NoDoc == NonObj("none")

\* dict.get(key) without the default: None for a missing key
DictGetNoDefault(o, k, default) == IF o[k] = Absent THEN Null ELSE o[k]

\* dict.get(key, default)
DictGet(o, k, default) == IF o[k] = Absent THEN default ELSE o[k]

\* Python truthiness of a JSON value
Truthy(v) ==
    CASE v.t = "num" -> v.n # 0
      [] v.t = "str" -> v.s # <<>>
      [] v.t = "list" -> v.l # <<>>
      [] OTHER -> FALSE

\* ', '.join over a sequence of strings
RECURSIVE JoinComma(_)
JoinComma(xs) ==
    IF xs = <<>> THEN ""
    ELSE IF Len(xs) = 1 THEN xs[1]
    ELSE xs[1] \o ", " \o JoinComma(Tail(xs))

\* the line without the "None identified" alternative
MissingSkillsLineJoinOnly(missing_skills) ==
    IF missing_skills.t = "list"
    THEN [ok |-> TRUE, text |-> JoinComma(missing_skills.l)]
    ELSE IF missing_skills.t = "str"
         THEN [ok |-> TRUE, text |-> JoinComma(missing_skills.s)]
    ELSE IF missing_skills.t = "null"
         THEN [ok |-> TRUE, text |-> "None identified"]
    ELSE [ok |-> FALSE, text |-> ""]

\* the MISSING SKILLS line of the recommendations prompt:
\* [ok, text]; ok = FALSE is the TypeError of join on a non-iterable
MissingSkillsLine(missing_skills) ==
    IF ~Truthy(missing_skills) THEN [ok |-> TRUE, text |-> "None identified"]
    ELSE IF missing_skills.t = "list"
         THEN [ok |-> TRUE, text |-> JoinComma(missing_skills.l)]
    ELSE IF missing_skills.t = "str"
         THEN [ok |-> TRUE, text |-> JoinComma(missing_skills.s)]
    ELSE [ok |-> FALSE, text |-> ""]

\* ---------------------------------------------------------- remote replies
\* The reply the service was asked for, per key.
Canon(k) ==
    CASE k = "similarity_score" -> Num(85)
      [] k = "overall_match" -> Str(<<"G", "o", "o", "d">>)
      [] k = "key_strengths" -> List(<<"python">>)
      [] k = "analysis_summary" -> Str(<<"o", "k">>)
      [] k = "matching_skills" -> List(<<"python">>)
      [] k = "missing_skills" -> List(<<"aws", "sql">>)
      [] k = "partial_matches" -> List(<<"go: some">>)
      [] k = "recommendations" -> List(<<"add aws">>)
      [] OTHER -> Absent

\* What the untrusted service may send for a key instead.
Deviant(k) ==
    CASE k = "similarity_score" ->
             {Absent, Null, Str(<<"h", "i">>), Num(150), Num(0 - 5)}
      [] k = "missing_skills" ->
             {Absent, Null, Num(7), List(<<>>), Str(<<"g", "o">>),
              List(<<"sql", "aws">>)}
      [] k \in ListKeys -> {Absent, Null, Num(7)}
      [] k = "extra" -> {Str(<<"x">>)}
      [] OTHER -> {Absent, Null, Num(7)}

CanonObj(step) ==
    [k \in AllKeys |-> IF k \in StepKeys(step) THEN Canon(k) ELSE Absent]

\* the objects that differ from the requested one in at most q keys
RECURSIVE Objects(_, _)
Objects(step, q) ==
    IF q = 0 THEN {CanonObj(step)}
    ELSE LET below == Objects(step, q - 1)
         IN below \cup
            UNION {{[o EXCEPT ![k] = v] : o \in below, v \in Deviant(k)} :
                      k \in StepKeys(step) \cup {"extra"}}

\* A reply: kind "network" (no response), "service" (error response),
\* "nonjson" (content json.loads rejects), "json" (content parsed to doc).
Failure(kind) == [kind |-> kind, doc |-> NoDoc]
Parsed(doc) == [kind |-> "json", doc |-> doc]

\* number of deviations of a reply from what step asked for
Odd(step, r) ==
    IF r.kind # "json" \/ r.doc.t # "obj" THEN 1
    ELSE Cardinality({k \in AllKeys : r.doc.o[k] # CanonObj(step)[k]})

RECURSIVE OddSoFar(_, _)
OddSoFar(rs, i) ==
    IF i > Len(rs) THEN 0 ELSE Odd(Steps[i], rs[i]) + OddSoFar(rs, i + 1)

\* the replies the service may give to the next request of the running call
Replies(step, q) ==
    {Parsed(Obj(o)) : o \in Objects(step, q)}
    \cup (IF q >= 1
          THEN {Failure("network"), Failure("service"), Failure("nonjson"),
                Parsed(NonObj("null")), Parsed(NonObj("list"))}
          ELSE {})


\* ------------------------------------------------- ResumeAnalyzer.analyze
Txt_py == <<"p", "y">>
Path_notes == <<"n", ".", "t", "x", "t">>
Path_legacy == <<"o", ".", "D", "o", "c">>

\* the files that exist on the server besides ./tmp
ServerFiles ==
    (Path_notes :> TxtBlob(<<103, 111>>)) @@ (Path_legacy :> TxtBlob(<<112>>))

\* what a caller may pass as job_description or resume
Inputs == {<<>>, <<" ", "\n">>, Txt_py, Path_notes, Path_legacy}

\* os.path.isfile
IsFile(s) == s \in DOMAIN ServerFiles

\* "if os.path.isfile(x): x = self.extract_text_from_file(x)"
Resolve(s) ==
    IF IsFile(s) THEN ExtractTextFromFile(s, ServerFiles[s]) ELSE Extracted(s)

\* "not x": the emptiness test without strip()
BlankNoStrip(s) == s = <<>>

\* "not x.strip()"
Blank(s) == Strip(s) = <<>>

NoError == [type |-> "none", step |-> "none", cause |-> "none"]
Err(type, step, cause) == [type |-> type, step |-> step, cause |-> cause]
\* a dict as a function over AllKeys: Absent marks a key the dict lacks
NoResults == [k \in AllKeys |-> Absent]
NoPrev == [job |-> <<>>, resume |-> <<>>, outcome |-> "none", nreq |-> 0]

Request(step, missing_skills, line) ==
    [step |-> step, job |-> job_description, resume |-> resume,
     missing_skills |-> missing_skills, line |-> line]

\* analyze raises e: the locals are gone, the caller sees the exception
Raise(e) ==
    /\ pc' = "done"
    /\ outcome' = "error"
    /\ error' = e
    /\ results' = NoResults
    /\ job_description' = <<>>
    /\ resume' = <<>>
    /\ similarity_result' = NoDoc
    /\ skills_result' = NoDoc

\* lines 410-421: file-path resolution, then validation
Analyze(j, r) ==
    /\ pc = "idle"
    /\ ncalls < MaxCalls
    /\ analyzer
    /\ ncalls' = ncalls + 1
    /\ in_job' = j
    /\ in_resume' = r
    /\ LET a == Resolve(j)
           b == Resolve(r)
       IN IF ~a.ok THEN Raise(Err("Exception", "extract", a.cause))
          ELSE IF ~b.ok THEN Raise(Err("Exception", "extract", b.cause))
          ELSE IF Blank(a.text)
               THEN Raise(Err("ValueError", "validate", "empty_job"))
          ELSE IF Blank(b.text)
               THEN Raise(Err("ValueError", "validate", "empty_resume"))
          ELSE /\ pc' = "score"
               /\ job_description' = a.text
               /\ resume' = b.text
               /\ UNCHANGED <<similarity_result, skills_result, outcome,
                              results, error>>
    /\ UNCHANGED <<requests, replies, prev>>
    /\ UNCHANGED <<uvars, evars>>

\* analyze called by a script
AnalyzeCall(j, r) == Analyze(j, r) /\ UNCHANGED pvars

\* calculate_similarity_score behind a cache keyed by the two inputs: no
\* request when the previous call had the same inputs and returned
ScoreRequestCached ==
    /\ pc = "score"
    /\ requests' = IF /\ prev.outcome = "result"
                      /\ prev.job = in_job
                      /\ prev.resume = in_resume
                   THEN requests
                   ELSE Append(requests, Request("score", Absent, ""))
    /\ pc' = "score_wait"
    /\ UNCHANGED <<in_job, in_resume, job_description, resume,
                   similarity_result, skills_result, replies, outcome,
                   results, error, prev, ncalls>>
    /\ UNCHANGED <<uvars, evars, pvars>>

\* calculate_similarity_score: client.chat.completions.create is called
ScoreRequest ==
    /\ pc = "score"
    /\ requests' = Append(requests, Request("score", Absent, ""))
    /\ pc' = "score_wait"
    /\ UNCHANGED <<in_job, in_resume, job_description, resume,
                   similarity_result, skills_result, replies, outcome,
                   results, error, prev, ncalls>>
    /\ UNCHANGED <<uvars, evars, pvars>>

\* calculate_similarity_score: the call returns or raises, json.loads
ScoreReply(r) ==
    /\ pc = "score_wait"
    /\ replies' = Append(replies, r)
    /\ IF r.kind # "json" THEN Raise(Err("Exception", "score", r.kind))
       ELSE /\ similarity_result' = r.doc
            /\ pc' = "skills"
            /\ UNCHANGED <<job_description, resume, skills_result, outcome,
                           results, error>>
    /\ UNCHANGED <<in_job, in_resume, requests, prev, ncalls>>
    /\ UNCHANGED <<uvars, evars, pvars>>

\* extract_skills: client.chat.completions.create is called
SkillsRequest ==
    /\ pc = "skills"
    /\ requests' = Append(requests, Request("skills", Absent, ""))
    /\ pc' = "skills_wait"
    /\ UNCHANGED <<in_job, in_resume, job_description, resume,
                   similarity_result, skills_result, replies, outcome,
                   results, error, prev, ncalls>>
    /\ UNCHANGED <<uvars, evars, pvars>>

\* extract_skills: the call returns or raises, json.loads
SkillsReply(r) ==
    /\ pc = "skills_wait"
    /\ replies' = Append(replies, r)
    /\ IF r.kind # "json" THEN Raise(Err("Exception", "skills", r.kind))
       ELSE /\ skills_result' = r.doc
            /\ pc' = "recs"
            /\ UNCHANGED <<job_description, resume, similarity_result,
                           outcome, results, error>>
    /\ UNCHANGED <<in_job, in_resume, requests, prev, ncalls>>
    /\ UNCHANGED <<uvars, evars, pvars>>

\* generate_recommendations called with skills_result.get('matching_skills')
RecsRequestWrongKey ==
    /\ pc = "recs"
    /\ IF skills_result.t # "obj"
       THEN /\ Raise(Err("AttributeError", "none", "nonobject"))
            /\ UNCHANGED requests
       ELSE LET missing_skills ==
                    DictGet(skills_result.o, "matching_skills", List(<<>>))
                line == MissingSkillsLine(missing_skills)
            IN IF ~line.ok
               THEN /\ Raise(Err("TypeError", "none", "join"))
                    /\ UNCHANGED requests
               ELSE /\ requests' = Append(requests,
                            Request("recs", missing_skills, line.text))
                    /\ pc' = "recs_wait"
                    /\ UNCHANGED <<job_description, resume,
                                   similarity_result, skills_result,
                                   outcome, results, error>>
    /\ UNCHANGED <<in_job, in_resume, replies, prev, ncalls>>
    /\ UNCHANGED <<uvars, evars, pvars>>

\* lines 436-440 and 350-391: skills_result.get('missing_skills', []), the
\* prompt of generate_recommendations, client.chat.completions.create
RecsRequest ==
    /\ pc = "recs"
    /\ IF skills_result.t # "obj"
       THEN /\ Raise(Err("AttributeError", "none", "nonobject"))
            /\ UNCHANGED requests
       ELSE LET missing_skills ==
                    DictGet(skills_result.o, "missing_skills", List(<<>>))
                line == MissingSkillsLine(missing_skills)
            IN IF ~line.ok
               THEN /\ Raise(Err("TypeError", "none", "join"))
                    /\ UNCHANGED requests
               ELSE /\ requests' = Append(requests,
                            Request("recs", missing_skills, line.text))
                    /\ pc' = "recs_wait"
                    /\ UNCHANGED <<job_description, resume,
                                   similarity_result, skills_result,
                                   outcome, results, error>>
    /\ UNCHANGED <<in_job, in_resume, replies, prev, ncalls>>
    /\ UNCHANGED <<uvars, evars, pvars>>

\* the merge as an update of one reply by the other: the keys the dict
\* literal does not name are carried over
CompileMerged(score, skills, recommendations) ==
    [k \in AllKeys |->
        CASE k = "similarity_score" -> DictGet(score, k, Num(0))
          [] k = "overall_match" ->
                 DictGet(score, k, Str(<<"U", "n", "k", "n", "o", "w", "n">>))
          [] k = "key_strengths" -> DictGet(score, k, List(<<>>))
          [] k = "analysis_summary" -> DictGet(score, k, Str(<<>>))
          [] k = "recommendations" -> recommendations
          [] k \in SkillsKeys -> DictGet(skills, k, List(<<>>))
          [] OTHER -> IF skills[k] # Absent THEN skills[k] ELSE score[k]]

\* lines 443-452: the merged record, a dict literal of eight keys
Compile(score, skills, recommendations) ==
    [k \in AllKeys |->
        CASE k = "similarity_score" -> DictGet(score, k, Num(0))
          [] k = "overall_match" ->
                 DictGet(score, k, Str(<<"U", "n", "k", "n", "o", "w", "n">>))
          [] k = "key_strengths" -> DictGet(score, k, List(<<>>))
          [] k = "analysis_summary" -> DictGet(score, k, Str(<<>>))
          [] k = "recommendations" -> recommendations
          [] k \in SkillsKeys -> DictGet(skills, k, List(<<>>))
          [] OTHER -> Absent]

\* generate_recommendations from the reply on (lines 393-397), then the
\* merge and the return of analyze (lines 442-454)
RecsReply(r) ==
    /\ pc = "recs_wait"
    /\ replies' = Append(replies, r)
    /\ IF r.kind # "json" THEN Raise(Err("Exception", "recs", r.kind))
       ELSE IF r.doc.t # "obj"
            THEN Raise(Err("Exception", "recs", "nonobject"))
       ELSE IF similarity_result.t # "obj"
            THEN Raise(Err("AttributeError", "none", "nonobject"))
       ELSE /\ results' = Compile(similarity_result.o, skills_result.o,
                     DictGet(r.doc.o, "recommendations", List(<<>>)))
            /\ outcome' = "result"
            /\ error' = NoError
            /\ pc' = "done"
            /\ job_description' = <<>>
            /\ resume' = <<>>
            /\ similarity_result' = NoDoc
            /\ skills_result' = NoDoc
    /\ UNCHANGED <<in_job, in_resume, requests, prev, ncalls>>
    /\ UNCHANGED <<uvars, evars, pvars>>

\* the caller has the outcome; the next call starts from nothing
Returned ==
    /\ pc = "done"
    /\ prev' = [job |-> in_job, resume |-> in_resume, outcome |-> outcome,
                nreq |-> Len(requests)]
    /\ pc' = "idle"
    /\ in_job' = <<>>
    /\ in_resume' = <<>>
    /\ requests' = <<>>
    /\ replies' = <<>>
    /\ outcome' = "none"
    /\ results' = NoResults
    /\ error' = NoError
    /\ UNCHANGED <<job_description, resume, similarity_result, skills_result,
                   ncalls>>
    /\ UNCHANGED <<uvars, evars>>

\* the return to a script
Return == Returned /\ UNCHANGED pvars

\* what the service may answer now, within the deviation bound
NextReplies(step) == Replies(step, MaxOdd - OddSoFar(replies, 1))


\* ------------------------------------------------ parse_contents (home.py)
NReq == 2           \* upload requests in one behaviour
Reqs == 1..NReq

Name_pdf == <<"a", ".", "p", "d", "f">>
Name_docx == <<"a", ".", "d", "o", "c", "x">>
Name_txt == <<"n", ".", "t", "x", "t">>
Name_other == <<"x", ".", "b", "i", "n">>
Filenames == {Name_pdf, Name_docx, Name_txt, Name_other}
\* further names a browser may send
Name_doc == <<"a", ".", "d", "o", "c">>
Name_DOC == <<"b", ".", "D", "O", "C">>
Name_TXT == <<"n", ".", "T", "X", "T">>
Name_bare == <<"c", "v">>
UploadNames == Filenames \cup {Name_doc, Name_DOC, Name_TXT, Name_bare}

Txt_go == <<"g", "o">>
Pdf_py == PdfBlob(<<Txt_py>>, 0, <<Txt_py>>, 0)
Pdf_go == PdfBlob(<<Txt_go>>, 0, <<Txt_go>>, 0)
\* a scanned PDF: one page, no text layer
Pdf_scan == PdfBlob(<< <<>> >>, 0, << <<>> >>, 0)
Docx_py == DocxBlob(<<Txt_py>>, <<>>)
Bytes_py == TxtBlob(<<112, 121, 32>>)
Bytes_latin == TxtBlob(<<233>>)
UploadBlobs == {Pdf_py, Pdf_go, Pdf_scan, Docx_py, Bytes_py, Bytes_latin}

\* the upload as the browser sends it: ok = FALSE when contents.split(',')
\* does not give two parts or the payload is not base64
Uploads == {[ok |-> TRUE, blob |-> b] : b \in UploadBlobs}
           \cup {[ok |-> FALSE, blob |-> EmptyBlob]}

\* f"./tmp/{filename}"
TempPath(filename) == <<".", "/", "t", "m", "p", "/">> \o filename
TempPaths == {TempPath(f) : f \in UploadNames}

NoFile == [exists |-> FALSE, blob |-> EmptyBlob]
File(blob) == [exists |-> TRUE, blob |-> blob]

Pending == [kind |-> "pending", text |-> <<>>]
RetNone == [kind |-> "none", text |-> <<>>]
RetText(t) == [kind |-> "text", text |-> t]

\* a write at offset 0 of a file that holds old: old's tail survives when
\* it is longer
Overlay(old, new) ==
    IF Len(new.bytes) >= Len(old.bytes) THEN new
    ELSE TxtBlob(new.bytes
                 \o SubSeq(old.bytes, Len(new.bytes) + 1, Len(old.bytes)))

IsPdfName(f) == EndsWith(f, <<".", "p", "d", "f">>)
IsDocxName(f) == EndsWith(f, <<".", "d", "o", "c", "x">>)
IsTxtName(f) == EndsWith(f, <<".", "t", "x", "t">>)

\* parse_contents returns v (a return statement or the except clause)
Finish(r, v) ==
    /\ u_pc' = [u_pc EXCEPT ![r] = "done"]
    /\ u_ret' = [u_ret EXCEPT ![r] = v]

\* lines 461-468, 477, 486-487: split and decode, then the branch on the
\* filename; the .txt branch and the else branch return at once
Start(r, f, c) ==
    /\ u_pc[r] = "idle"
    /\ u_filename' = [u_filename EXCEPT ![r] = f]
    /\ u_blob' = [u_blob EXCEPT ![r] = c.blob]
    /\ IF ~c.ok THEN Finish(r, RetNone)
       ELSE IF IsTxtName(f)
            THEN LET d == Utf8Decode(c.blob.bytes)
                 IN Finish(r, IF d.ok THEN RetText(d.text) ELSE RetNone)
       ELSE IF IsPdfName(f) \/ IsDocxName(f)
            THEN /\ u_pc' = [u_pc EXCEPT ![r] = "open"]
                 /\ UNCHANGED u_ret
       ELSE Finish(r, RetNone)
    /\ UNCHANGED <<analyzer, tmp_dir, fs, u_linked, u_text, u_read, u_wrote>>
    /\ UNCHANGED <<avars, evars, pvars>>

\* open(temp_path, 'wb'): creates the file or truncates the one at the path
Open(r) ==
    /\ u_pc[r] = "open"
    /\ IF ~tmp_dir
       THEN /\ Finish(r, RetNone)
            /\ UNCHANGED <<fs, u_linked>>
       ELSE /\ fs' = [fs EXCEPT ![TempPath(u_filename[r])] = File(EmptyBlob)]
            /\ u_linked' = [u_linked EXCEPT ![r] = TRUE]
            /\ u_pc' = [u_pc EXCEPT ![r] = "write"]
            /\ UNCHANGED u_ret
    /\ UNCHANGED <<analyzer, tmp_dir, u_filename, u_blob, u_text, u_read,
                   u_wrote>>
    /\ UNCHANGED <<avars, evars, pvars>>

\* f.write(decoded) and the close at the end of the with block; a file that
\* was removed while open is written to without coming back at its path
Write(r) ==
    /\ u_pc[r] = "write"
    /\ fs' = IF u_linked[r]
             THEN [fs EXCEPT ![TempPath(u_filename[r])] =
                      File(Overlay(@.blob, u_blob[r]))]
             ELSE fs
    /\ u_linked' = [u_linked EXCEPT ![r] = FALSE]
    /\ u_wrote' = [u_wrote EXCEPT ![r] = TRUE]
    /\ u_pc' = [u_pc EXCEPT ![r] = "extract"]
    /\ UNCHANGED <<analyzer, tmp_dir, u_filename, u_blob, u_text, u_read,
                   u_ret>>
    /\ UNCHANGED <<avars, evars, pvars>>

\* analyzer._extract_from_pdf(temp_path) / analyzer._extract_from_docx
Extract(r) ==
    /\ u_pc[r] = "extract"
    /\ LET file == fs[TempPath(u_filename[r])]
           e == IF IsPdfName(u_filename[r]) THEN ExtractFromPdf(file.blob)
                ELSE ExtractFromDocx(file.blob)
       IN IF ~analyzer \/ ~file.exists
          THEN /\ Finish(r, RetNone)
               /\ UNCHANGED <<u_text, u_read>>
          ELSE /\ u_read' = [u_read EXCEPT ![r] = file.blob]
               /\ IF e.ok
                  THEN /\ u_text' = [u_text EXCEPT ![r] = e.text]
                       /\ u_pc' = [u_pc EXCEPT ![r] = "remove"]
                       /\ UNCHANGED u_ret
                  ELSE /\ Finish(r, RetNone)
                       /\ UNCHANGED u_text
    /\ UNCHANGED <<analyzer, tmp_dir, fs, u_filename, u_blob, u_linked,
                   u_wrote>>
    /\ UNCHANGED <<avars, evars, pvars>>

\* os.remove(temp_path) and return text
Remove(r) ==
    /\ u_pc[r] = "remove"
    /\ LET path == TempPath(u_filename[r])
       IN IF ~fs[path].exists
          THEN /\ Finish(r, RetNone)
               /\ UNCHANGED <<fs, u_linked>>
          ELSE /\ fs' = [fs EXCEPT ![path] = NoFile]
               /\ u_linked' = [q \in Reqs |->
                     u_linked[q] /\ TempPath(u_filename[q]) # path]
               /\ Finish(r, RetText(u_text[r]))
    /\ UNCHANGED <<analyzer, tmp_dir, u_filename, u_blob, u_text, u_read,
                   u_wrote>>
    /\ UNCHANGED <<avars, evars, pvars>>

\* -------------------------------------------------------- specifications
AnalyzeIdle ==
    /\ pc = "idle"
    /\ in_job = <<>>
    /\ in_resume = <<>>
    /\ job_description = <<>>
    /\ resume = <<>>
    /\ similarity_result = NoDoc
    /\ skills_result = NoDoc
    /\ requests = <<>>
    /\ replies = <<>>
    /\ outcome = "none"
    /\ results = NoResults
    /\ error = NoError
    /\ prev = NoPrev
    /\ ncalls = 0

UploadIdle ==
    /\ fs = [p \in TempPaths |-> NoFile]
    /\ u_pc = [r \in Reqs |-> "idle"]
    /\ u_filename = [r \in Reqs |-> <<>>]
    /\ u_blob = [r \in Reqs |-> EmptyBlob]
    /\ u_linked = [r \in Reqs |-> FALSE]
    /\ u_text = [r \in Reqs |-> <<>>]
    /\ u_read = [r \in Reqs |-> EmptyBlob]
    /\ u_wrote = [r \in Reqs |-> FALSE]
    /\ u_ret = [r \in Reqs |-> Pending]

\* ---------------------------------------------------- the page (home.py)
\* a credential value: None, the empty string, a key
NoKey == "None"
KeyValues == {NoKey, "", "sk-1"}
HasKey(k) == k # NoKey /\ k # ""

\* a store or a callback argument: None or a text
NoContent == [some |-> FALSE, text |-> <<>>]
Content(t) == [some |-> TRUE, text |-> t]
\* "not x" on it
Falsy(c) == ~c.some \/ c.text = <<>>

NoExport == [some |-> FALSE, content |-> <<>>]
Export(content) == [some |-> TRUE, content |-> content]

NoStored == [some |-> FALSE, rec |-> NoResults]
Stored(rec) == [some |-> TRUE, rec |-> rec]

PageIdle ==
    /\ p_pc = "boot"
    /\ env_key = NoKey
    /\ arg_key = NoKey
    /\ api_key = NoKey
    /\ config_error = FALSE
    /\ job_store = NoContent
    /\ resume_store = NoContent
    /\ results_store = NoStored
    /\ section = "empty"
    /\ p_job = NoContent
    /\ p_resume = NoContent
    /\ exported = NoExport

\* a constructor that accepts a missing key and leaves the failure to the
\* first use
BootDeferred(arg, env) ==
    /\ p_pc = "boot"
    /\ env_key' = env
    /\ arg_key' = arg
    /\ config_error' = FALSE
    /\ analyzer' = TRUE
    /\ api_key' = IF HasKey(arg) THEN arg ELSE env
    /\ p_pc' = "ready"
    /\ UNCHANGED <<job_store, resume_store, results_store, section, p_job,
                   p_resume, exported>>
    /\ UNCHANGED <<tmp_dir, fs, u_pc, u_filename, u_blob, u_linked, u_text,
                   u_read, u_wrote, u_ret>>
    /\ UNCHANGED <<avars, evars>>

\* ResumeAnalyzer.__init__ (lines 33-38) run by the module-level try of
\* home.py (lines 24-28, which pass no argument: arg = None)
Boot(arg, env) ==
    /\ p_pc = "boot"
    /\ env_key' = env
    /\ arg_key' = arg
    /\ LET key == IF HasKey(arg) THEN arg ELSE env
       IN IF ~HasKey(key)
          THEN /\ config_error' = TRUE
               /\ analyzer' = FALSE
               /\ api_key' = NoKey
          ELSE /\ config_error' = FALSE
               /\ analyzer' = TRUE
               /\ api_key' = key
    /\ p_pc' = "ready"
    /\ UNCHANGED <<job_store, resume_store, results_store, section, p_job,
                   p_resume, exported>>
    /\ UNCHANGED <<tmp_dir, fs, u_pc, u_filename, u_blob, u_linked, u_text,
                   u_read, u_wrote, u_ret>>
    /\ UNCHANGED <<avars, evars>>

\* what handle_job_input / handle_resume_input put in the store: the text
\* parse_contents returned for an upload, else the text typed
StoreValue(uploaded, parsed, text_value) ==
    IF uploaded THEN (IF Falsy(parsed) THEN NoContent ELSE parsed)
    ELSE IF Falsy(text_value) THEN NoContent
    ELSE text_value

\* handle_job_input, lines 353-366
HandleJobInput(uploaded, parsed, text_value) ==
    /\ p_pc = "ready"
    /\ job_store' = StoreValue(uploaded, parsed, text_value)
    /\ UNCHANGED <<p_pc, env_key, arg_key, api_key, config_error,
                   resume_store, results_store, section, p_job, p_resume,
                   exported>>
    /\ UNCHANGED <<avars, uvars, evars>>

\* handle_resume_input, lines 382-393
HandleResumeInput(uploaded, parsed, text_value) ==
    /\ p_pc = "ready"
    /\ resume_store' = StoreValue(uploaded, parsed, text_value)
    /\ UNCHANGED <<p_pc, env_key, arg_key, api_key, config_error,
                   job_store, results_store, section, p_job, p_resume,
                   exported>>
    /\ UNCHANGED <<avars, uvars, evars>>

\* a click that leaves the store as it is (no_update) when it reports a
\* missing input or a missing analyzer
ClickKeepsStore ==
    /\ p_pc = "ready"
    /\ p_job' = job_store
    /\ p_resume' = resume_store
    /\ IF Falsy(job_store) \/ Falsy(resume_store)
       THEN /\ section' = "provide_both"
            /\ UNCHANGED <<p_pc, avars, results_store>>
       ELSE IF ~analyzer
       THEN /\ section' = "not_configured"
            /\ UNCHANGED <<p_pc, avars, results_store>>
       ELSE /\ Analyze(job_store.text, resume_store.text)
            /\ p_pc' = "analyzing"
            /\ UNCHANGED <<section, results_store>>
    /\ UNCHANGED <<env_key, arg_key, api_key, config_error, job_store,
                   resume_store, exported>>
    /\ UNCHANGED <<uvars, evars>>

\* analyze_resume up to the call of analyzer.analyze, lines 411-424
Click ==
    /\ p_pc = "ready"
    /\ p_job' = job_store
    /\ p_resume' = resume_store
    /\ IF Falsy(job_store) \/ Falsy(resume_store)
       THEN /\ section' = "provide_both"
            /\ results_store' = NoStored
            /\ UNCHANGED <<p_pc, avars>>
       ELSE IF ~analyzer
       THEN /\ section' = "not_configured"
            /\ results_store' = NoStored
            /\ UNCHANGED <<p_pc, avars>>
       ELSE /\ Analyze(job_store.text, resume_store.text)
            /\ p_pc' = "analyzing"
            /\ UNCHANGED <<section, results_store>>
    /\ UNCHANGED <<env_key, arg_key, api_key, config_error, job_store,
                   resume_store, exported>>
    /\ UNCHANGED <<uvars, evars>>

\* create_results_layout(results) raises: the gauge value is not a number
\* (line 106), len() of a non-sequence (lines 131-132), an unhashable
\* match level (line 95), a list field that is a non-zero number is
\* iterated (lines 206-261)
LayoutRaises(rec) ==
    \/ rec["similarity_score"].t \in {"str", "list"}
    \/ rec["matching_skills"].t \in {"null", "num"}
    \/ rec["missing_skills"].t \in {"null", "num"}
    \/ rec["overall_match"].t = "list"
    \/ \E k \in ListKeys : rec[k].t = "num" /\ rec[k].n # 0

\* analyze_resume from the return of analyzer.analyze on, lines 424-435
Render ==
    /\ p_pc = "analyzing"
    /\ pc = "done"
    /\ IF outcome = "error" \/ LayoutRaises(results)
       THEN /\ section' = "error"
            /\ results_store' = NoStored
       ELSE /\ section' = "results"
            /\ results_store' = Stored(results)
    /\ p_pc' = "ready"
    /\ Returned
    /\ UNCHANGED <<env_key, arg_key, api_key, config_error, job_store,
                   resume_store, p_job, p_resume, exported>>

\* the keys of the result dict in the order the dict literal gives them,
\* then any other key
KeyOrder ==
    <<"similarity_score", "overall_match", "key_strengths",
      "analysis_summary", "matching_skills", "missing_skills",
      "partial_matches", "recommendations", "extra">>

\* json.dumps(results, indent=2): one member per key the dict has, in the
\* dict's order, as <<key, value>>
RECURSIVE DumpsFrom(_, _)
DumpsFrom(rec, i) ==
    IF i > Len(KeyOrder) THEN <<>>
    ELSE (IF rec[KeyOrder[i]] # Absent
          THEN << <<KeyOrder[i], rec[KeyOrder[i]]>> >> ELSE <<>>)
         \o DumpsFrom(rec, i + 1)

Dumps(rec) == DumpsFrom(rec, 1)

\* download_results, lines 444-456: PreventUpdate when the store is None
Download ==
    /\ p_pc # "boot"
    /\ results_store.some
    /\ exported' = Export(Dumps(results_store.rec))
    /\ UNCHANGED <<p_pc, env_key, arg_key, api_key, config_error, job_store,
                   resume_store, results_store, section, p_job, p_resume>>
    /\ UNCHANGED <<avars, uvars, evars>>

ExtractIdle ==
    /\ e_pc = "idle"
    /\ e_path = <<>>
    /\ e_exists = FALSE
    /\ e_blob = EmptyBlob
    /\ e_res = Raised("none")
    /\ e_ran = <<>>

\* the analyzer: a sequence of analyze calls on a constructed analyzer
Init ==
    /\ AnalyzeIdle
    /\ UploadIdle
    /\ ExtractIdle
    /\ PageIdle
    /\ analyzer = TRUE
    /\ tmp_dir = TRUE

Next ==
    \/ \E j \in Inputs, r \in Inputs : AnalyzeCall(j, r)
    \/ ScoreRequest
    \/ \E r \in NextReplies("score") : ScoreReply(r)
    \/ SkillsRequest
    \/ \E r \in NextReplies("skills") : SkillsReply(r)
    \/ RecsRequest
    \/ \E r \in NextReplies("recs") : RecsReply(r)
    \/ Return

Spec == Init /\ [][Next]_vars

\* The same with the progress the program itself makes: a request it has
\* prepared is sent and the outcome it has is returned. Nothing makes the
\* service answer: the client is built without a timeout (line 37) and the
\* create calls pass none (lines 267, 321, 383).
LiveSpec ==
    /\ Init
    /\ [][Next]_vars
    /\ WF_vars(ScoreRequest)
    /\ WF_vars(SkillsRequest)
    /\ WF_vars(RecsRequest)
    /\ WF_vars(Return)

\* the upload handler: concurrent requests of the web server
UploadInit ==
    /\ AnalyzeIdle
    /\ UploadIdle
    /\ ExtractIdle
    /\ PageIdle
    /\ analyzer \in BOOLEAN
    /\ tmp_dir \in BOOLEAN

UploadNext ==
    \/ \E r \in Reqs, f \in Filenames, c \in Uploads : Start(r, f, c)
    \/ \E r \in Reqs : Open(r)
    \/ \E r \in Reqs : Write(r)
    \/ \E r \in Reqs : Extract(r)
    \/ \E r \in Reqs : Remove(r)

UploadSpec == UploadInit /\ [][UploadNext]_vars

\* ------------------------------------------- extract_text_from_file calls
MaxPages == 2       \* pages of a PDF
MaxParas == 2       \* paragraphs of a DOCX
MaxCells == 3       \* table cells of a DOCX, over all its tables
MaxBytes == 2       \* bytes of a text file

\* the sequences over S of length at most n
SeqsUpTo(S, n) == UNION {[1..k -> S] : k \in 0..n}

\* page texts: none (None or ""), whitespace, words
PlumberTexts == {<<>>, <<" ">>, Txt_py}
PyPdfTexts == {<<" ">>, Txt_go}
\* the two libraries read different text from the pages, or (the last set)
\* the same text from a one-page file
PdfBlobs ==
    {PdfBlob(pl, plf, py, pyf) :
        pl \in SeqsUpTo(PlumberTexts, MaxPages), plf \in 0..(MaxPages + 1),
        py \in SeqsUpTo(PyPdfTexts, MaxPages), pyf \in 0..(MaxPages + 1)}
    \cup {PdfBlob(<<Txt_py>>, plf, <<Txt_py>>, 0) : plf \in 0..(MaxPages + 1)}

Txt_Alice == <<"A", "l", "i", "c", "e">>
Txt_Engineer == <<"E", "n", "g", "i", "n", "e", "e", "r">>
ParaTexts == {<<" ">>, Txt_Alice, Txt_Engineer}
CellTexts == {<<"\t">>, Txt_go}

\* the tables with exactly n cells (no empty row), and the sequences of
\* tables with exactly n cells (no empty table)
RECURSIVE TablesOf(_)
TablesOf(n) ==
    IF n = 0 THEN {<<>>}
    ELSE UNION {{<<row>> \o t : row \in [1..k -> CellTexts],
                                t \in TablesOf(n - k)} : k \in 1..n}

RECURSIVE TableSeqsOf(_)
TableSeqsOf(n) ==
    IF n = 0 THEN {<<>>}
    ELSE UNION {{<<t>> \o ts : t \in TablesOf(k),
                               ts \in TableSeqsOf(n - k)} : k \in 1..n}

DocxBlobs ==
    {DocxBlob(ps, ts) : ps \in SeqsUpTo(ParaTexts, MaxParas),
                        ts \in UNION {TableSeqsOf(n) : n \in 0..MaxCells}}

\* bytes: CR, LF, "g", a lone 0xE9, and the two bytes of UTF-8 "e'"
ByteValues == {13, 10, 103, 233, 195, 169}
TxtBlobs == {TxtBlob(bs) : bs \in SeqsUpTo(ByteValues, MaxBytes)}

Path_doc == <<"r", ".", "d", "o", "c">>
Path_DOC == <<"R", ".", "D", "O", "C">>
Path_pdf == <<"r", ".", "p", "d", "f">>
Path_docx == <<"r", ".", "d", "o", "c", "x">>
Path_txt == <<"r", ".", "t", "x", "t">>
Path_md == <<"r", ".", "m", "d">>
Path_bare == <<"c", "v">>
DocPaths == {Path_doc, Path_DOC, Path_legacy}
TxtPaths == {Path_txt, Path_md, Path_bare}

\* files of every format, and one of each other format under each name
SampleBlobs == {Pdf_py, Pdf_scan, Docx_py, Bytes_py, Bytes_latin, EmptyBlob}
ExtractInputs ==
    {[path |-> p, blob |-> b] :
        p \in DocPaths \cup {Path_pdf, Path_docx} \cup TxtPaths,
        b \in SampleBlobs}
    \cup {[path |-> Path_pdf, blob |-> b] : b \in PdfBlobs}
    \cup {[path |-> Path_docx, blob |-> b] : b \in DocxBlobs}
    \cup {[path |-> p, blob |-> b] : p \in TxtPaths, b \in TxtBlobs}

\* the routines and libraries extract_text_from_file runs on a file
Ran(path, blob) ==
    IF Routine(path) = "none" THEN <<>>
    ELSE <<Routine(path)>>
         \o (IF Routine(path) = "_extract_from_pdf" THEN PdfMethods(blob)
             ELSE <<>>)

\* extract_text_from_file(file_path), lines 53-84
ExtractCall(path, exists, blob) ==
    /\ e_pc = "idle"
    /\ e_pc' = "done"
    /\ e_path' = path
    /\ e_exists' = exists
    /\ e_blob' = blob
    /\ IF ~exists
       THEN /\ e_res' = Raised("not_found")
            /\ e_ran' = <<>>
       ELSE /\ e_res' = ExtractTextFromFile(path, blob)
            /\ e_ran' = Ran(path, blob)
    /\ UNCHANGED <<avars, uvars, pvars>>

\* one extract_text_from_file call, or one upload through parse_contents
ExtractInit ==
    /\ AnalyzeIdle
    /\ UploadIdle
    /\ ExtractIdle
    /\ PageIdle
    /\ analyzer = TRUE
    /\ tmp_dir = TRUE

ExtractNext ==
    \/ /\ u_pc[1] = "idle"
       /\ e_pc = "idle"
       /\ \E i \in ExtractInputs, x \in BOOLEAN :
             ExtractCall(i.path, x, i.blob)
    \/ /\ e_pc = "idle"
       /\ \/ \E f \in UploadNames, c \in Uploads : Start(1, f, c)
          \/ Open(1)
          \/ Write(1)
          \/ Extract(1)
          \/ Remove(1)

ExtractSpec == ExtractInit /\ [][ExtractNext]_vars

\* the page: the module is loaded, then callbacks run one after another
TypedTexts ==
    {NoContent, Content(<<>>), Content(<<" ">>), Content(Txt_py),
     Content(Path_notes)}
ParsedTexts == {NoContent, Content(<<>>), Content(Txt_py)}

\* what the service answers to the page's analyses: the requested object,
\* no response, JSON null, or the object with one value of another type
PageDeviant(k) ==
    CASE k = "similarity_score" -> {Null, Str(<<"h", "i">>)}
      [] k = "matching_skills" -> {Null}
      [] k = "extra" -> {Str(<<"x">>)}
      [] OTHER -> {}

\* the arguments of an input callback: an upload (parsed, with or without
\* text in the text area) or, without an upload, the text typed
PageInputs ==
    {<<TRUE, c, t>> : c \in ParsedTexts, t \in {NoContent, Content(Txt_py)}}
    \cup {<<FALSE, NoContent, t>> : t \in TypedTexts}

\* the api_key argument of the page's constructor call: home.py passes
\* none (line 26); the empty string is the value __init__ treats alike
PageArgs == {NoKey, ""}

PageReplies(step) ==
    {Parsed(Obj(CanonObj(step))), Failure("network"), Parsed(NonObj("null"))}
    \cup UNION {{Parsed(Obj([CanonObj(step) EXCEPT ![k] = v])) :
                    v \in PageDeviant(k)} :
                 k \in StepKeys(step) \cup {"extra"}}

PageInit ==
    /\ AnalyzeIdle
    /\ UploadIdle
    /\ ExtractIdle
    /\ PageIdle
    /\ analyzer = FALSE
    /\ tmp_dir = TRUE

PageNext ==
    \/ \E arg \in PageArgs, env \in KeyValues : Boot(arg, env)
    \/ \E i \in PageInputs : HandleJobInput(i[1], i[2], i[3])
    \/ \E i \in PageInputs : HandleResumeInput(i[1], i[2], i[3])
    \/ Click
    \/ ScoreRequest
    \/ \E r \in PageReplies("score") : ScoreReply(r)
    \/ SkillsRequest
    \/ \E r \in PageReplies("skills") : SkillsReply(r)
    \/ RecsRequest
    \/ \E r \in PageReplies("recs") : RecsReply(r)
    \/ Render
    \/ Download

PageSpec == PageInit /\ [][PageNext]_vars


\* ------------------------------------------------------------ properties
\* a reply that is a failure of its step: no response, an error response,
\* content that is not JSON, or JSON that is not an object
FailedReply(r) == r.kind # "json" \/ r.doc.t # "obj"
FailureCause(r) == IF r.kind # "json" THEN r.kind ELSE "nonobject"

\* C1: for non-blank inputs and any replies, analyze raises or returns a
\* record with all eight fields and similarity_score within 0..100.
C1_CompleteResultInRange ==
    (outcome = "result" /\ Strip(in_job) # <<>> /\ Strip(in_resume) # <<>>)
    => /\ \A k \in ResultKeys : results[k] # Absent
       /\ results["similarity_score"].t = "num"
       /\ results["similarity_score"].n >= 0
       /\ results["similarity_score"].n <= 100

FileFails(s) == IsFile(s) /\ ~ExtractTextFromFile(s, ServerFiles[s]).ok

C3_FailureAbortsAtStep ==
    \A i \in 1..Len(replies) :
        FailedReply(replies[i])
        => /\ Len(requests) = i
           /\ pc = "done"
           /\ outcome = "error"

\* C4: a call never issues more than three requests, a call that returns a
\* result has issued exactly the three, one per step, and a call that
\* repeats the inputs of the previous call issues three again (six for two
\* returning calls).
C4_ThreeRequestsPerCall ==
    /\ Len(requests) <= 3
    /\ outcome = "result"
       => /\ Len(requests) = 3
          /\ \A i \in 1..3 : requests[i].step = Steps[i]
    /\ (/\ outcome = "result"
        /\ prev.outcome = "result"
        /\ prev.job = in_job
        /\ prev.resume = in_resume)
       => prev.nreq + Len(requests) = 6

C4_Witness ==
    /\ pc = "done"
    /\ outcome = "result"
    /\ prev.outcome = "result"
    /\ prev.job = in_job
    /\ prev.resume = in_resume
    /\ prev.nreq = 3
    /\ Len(requests) = 3

\* C5: every failed step surfaces as the wrapped error of that step: an
\* Exception that names the step and carries the cause.
C5_FailureNamesStep ==
    \A i \in 1..Len(replies) :
        (FailedReply(replies[i]) /\ pc = "done")
        => /\ outcome = "error"
           /\ error = Err("Exception", Steps[i], FailureCause(replies[i]))

\* C6: the requests of a call are score, skills, recommendations in that
\* order, request i + 1 is issued only after reply i is in, and the list the
\* recommendations request carries is the missing_skills value of the skills
\* reply of the same call (the empty list when the reply has no such key).
C6_SequentialSteps ==
    /\ \A i \in 1..Len(requests) : requests[i].step = Steps[i]
    /\ Len(replies) <= Len(requests)
    /\ Len(requests) <= Len(replies) + 1
    /\ Len(requests) = 3
       => /\ replies[2].kind = "json"
          /\ replies[2].doc.t = "obj"
          /\ requests[3].missing_skills =
                IF replies[2].doc.o["missing_skills"] = Absent
                THEN List(<<>>)
                ELSE replies[2].doc.o["missing_skills"]

C6_Witness ==
    /\ pc = "recs_wait"
    /\ Len(requests) = 3
    /\ Len(replies) = 2
    /\ requests[3].missing_skills = List(<<"aws", "sql">>)
    /\ requests[3].line = "aws, sql"

\* the default of each result field
FieldDefault(k) ==
    CASE k = "similarity_score" -> Num(0)
      [] k = "overall_match" -> Str(<<"U", "n", "k", "n", "o", "w", "n">>)
      [] k = "analysis_summary" -> Str(<<>>)
      [] OTHER -> List(<<>>)

\* the reply that carries key k: 1 score, 2 skills, 3 recommendations
ReplyOf(k) == IF k \in ScoreKeys THEN 1 ELSE IF k \in SkillsKeys THEN 2 ELSE 3

\* a JSON object in which every key is as requested or missing
OmitsOnly(i) ==
    /\ replies[i].kind = "json"
    /\ replies[i].doc.t = "obj"
    /\ \A k \in AllKeys :
          replies[i].doc.o[k] \in {Absent, CanonObj(Steps[i])[k]}

\* C7: a key that a reply omits is no failure, and the result carries the
\* default of that field.
C7_DefaultOnMissing ==
    /\ (/\ pc = "done"
        /\ requests # <<>>
        /\ \A i \in 1..Len(replies) : OmitsOnly(i))
       => outcome = "result"
    /\ outcome = "result"
       => \A k \in ResultKeys :
             replies[ReplyOf(k)].doc.o[k] = Absent
             => results[k] = FieldDefault(k)

C7_Witness ==
    /\ pc = "done"
    /\ outcome = "result"
    /\ replies[2].doc.o["partial_matches"] = Absent
    /\ results["partial_matches"] = List(<<>>)
    /\ results["missing_skills"] = List(<<"aws", "sql">>)

\* C8: a field of the wrong shape gets its default: the five list fields of
\* a returned result are lists, and no AttributeError or TypeError escapes.
C8_WrongShapeDefaults ==
    /\ outcome = "result" => \A k \in ListKeys : results[k].t = "list"
    /\ outcome = "error" => error.type \notin {"AttributeError", "TypeError"}

\* C9: once parse_contents has returned, the temporary file it wrote is gone
\* (stated for a request that ran with no other request around).
C9_TempFileRemoved ==
    \A r \in Reqs :
        (/\ u_pc[r] = "done"
         /\ u_wrote[r]
         /\ \A q \in Reqs \ {r} : u_pc[q] = "idle")
        => ~fs[TempPath(u_filename[r])].exists

\* what parse_contents returns for the bytes the request itself uploaded
OwnResult(r) ==
    LET e == IF IsPdfName(u_filename[r]) THEN ExtractFromPdf(u_blob[r])
             ELSE ExtractFromDocx(u_blob[r])
    IN IF analyzer /\ e.ok THEN RetText(e.text) ELSE RetNone

\* C10: concurrent uploads are independent: a request that wrote its
\* temporary file extracts from the bytes it wrote and returns what those
\* bytes give, whatever the other requests do.
C10_RequestsIndependent ==
    \A r \in Reqs :
        (u_pc[r] = "done" /\ u_wrote[r])
        => /\ u_ret[r] = OwnResult(r)
           /\ analyzer => u_read[r] = u_blob[r]


PlumberYields(blob) ==
    /\ blob.pdf.valid
    /\ ~Raises(blob.pdf.plumber, blob.pdf.plumberFail)
    /\ \E i \in 1..Len(blob.pdf.plumber) : Strip(blob.pdf.plumber[i]) # <<>>
PyPdfYields(blob) ==
    /\ blob.pdf.valid
    /\ ~Raises(blob.pdf.pypdf, blob.pdf.pypdfFail)
    /\ \E i \in 1..Len(blob.pdf.pypdf) : Strip(blob.pdf.pypdf[i]) # <<>>

\* C12: PDF extraction runs pdfplumber first; when pdfplumber yields
\* non-whitespace content that text is returned and PyPDF2 does not run;
\* PyPDF2 runs only when pdfplumber yielded none; and the extraction fails
\* if and only if neither strategy yields non-whitespace content.
C12_PdfFirstSuccess ==
    (/\ e_pc = "done"
     /\ e_exists
     /\ Lower(PathSuffix(e_path)) = <<".", "p", "d", "f">>)
    => /\ Len(e_ran) >= 2 /\ e_ran[2] = "pdfplumber"
       /\ PlumberYields(e_blob)
          => /\ e_res.ok
             /\ e_res.text = PlumberPages(e_blob.pdf.plumber, 0, 1)
             /\ e_ran = <<"_extract_from_pdf", "pdfplumber">>
       /\ (\E i \in 1..Len(e_ran) : e_ran[i] = "PyPDF2")
          => ~PlumberYields(e_blob)
       /\ ~e_res.ok <=> (~PlumberYields(e_blob) /\ ~PyPdfYields(e_blob))

\* the same, over the files on which pdfplumber gathers no text before it
\* raises
C12_WithoutPartialText ==
    (/\ e_blob.pdf.valid
     /\ Raises(e_blob.pdf.plumber, e_blob.pdf.plumberFail)
     /\ Strip(PlumberPages(e_blob.pdf.plumber, e_blob.pdf.plumberFail, 1))
           # <<>>)
    \/ C12_PdfFirstSuccess

\* bytes as text: UTF-8 when the bytes are valid UTF-8, Latin-1 otherwise
\* (for ASCII bytes both give the bytes' own characters)
DecodedText(bs) ==
    IF Utf8Decode(bs).ok THEN Utf8Decode(bs).text ELSE Latin1Decode(bs)

\* C13: a .txt input never fails to decode and yields its bytes as UTF-8
\* text, or as Latin-1 text when they are not valid UTF-8 (so ASCII content
\* comes back unchanged), both for a .txt file given to
\* extract_text_from_file and for an uploaded .txt file.
C13_TxtAlwaysDecodes ==
    /\ (/\ e_pc = "done"
        /\ e_exists
        /\ Lower(PathSuffix(e_path)) = <<".", "t", "x", "t">>)
       => (e_res.ok /\ e_res.text = DecodedText(e_blob.bytes))
    /\ (/\ u_pc[1] = "done"
        /\ Lower(PathSuffix(u_filename[1])) = <<".", "t", "x", "t">>
        /\ u_blob[1] # EmptyBlob)
       => u_ret[1] = RetText(DecodedText(u_blob[1].bytes))

\* a text with a non-whitespace character
HasInk(t) == \E i \in 1..Len(t) : t[i] \notin Whitespace

\* the cells of a table row by row, and of the tables table by table
RECURSIVE CellsOfTable(_)
CellsOfTable(table) ==
    IF table = <<>> THEN <<>>
    ELSE Head(table) \o CellsOfTable(Tail(table))

RECURSIVE CellsInOrder(_)
CellsInOrder(tables) ==
    IF tables = <<>> THEN <<>>
    ELSE CellsOfTable(Head(tables)) \o CellsInOrder(Tail(tables))

\* t is the pieces in order with one "\n" between neighbours
RECURSIVE IsJoin(_, _)
IsJoin(t, pieces) ==
    IF pieces = <<>> THEN t = <<>>
    ELSE IF Len(pieces) = 1 THEN t = pieces[1]
    ELSE LET n == Len(pieces[1])
         IN /\ Len(t) > n
            /\ SubSeq(t, 1, n) = pieces[1]
            /\ t[n + 1] = "\n"
            /\ IsJoin(SubSeq(t, n + 2, Len(t)), Tail(pieces))

\* C14: DOCX extraction returns the non-blank paragraphs in document order
\* followed by the non-blank table cells in document order (table by table,
\* row by row, cell by cell), joined by single newlines; paragraphs "Alice"
\* and "Engineer" without tables give "Alice\nEngineer".
C14_DocxParagraphsThenCells ==
    (/\ e_pc = "done"
     /\ e_exists
     /\ Lower(PathSuffix(e_path)) = <<".", "d", "o", "c", "x">>
     /\ e_blob.docx.valid)
    => /\ e_res.ok
       /\ IsJoin(e_res.text,
                 SelectSeq(e_blob.docx.paragraphs, HasInk)
                 \o SelectSeq(CellsInOrder(e_blob.docx.tables), HasInk))
       /\ (/\ e_blob.docx.paragraphs = <<Txt_Alice, Txt_Engineer>>
           /\ e_blob.docx.tables = <<>>)
          => e_res.text = <<"A", "l", "i", "c", "e", "\n",
                            "E", "n", "g", "i", "n", "e", "e", "r">>

C14_Witness ==
    /\ e_pc = "done"
    /\ e_path = Path_docx
    /\ e_exists
    /\ e_blob.docx.paragraphs = << <<" ">>, Txt_Alice >>
    /\ e_blob.docx.tables = << << <<Txt_go, <<"\t">> >> >>, << <<Txt_go>> >> >>
    /\ e_res.text = <<"A", "l", "i", "c", "e", "\n", "g", "o", "\n", "g", "o">>

KnownExtensions ==
    {<<".", "t", "x", "t">>, <<".", "p", "d", "f">>,
     <<".", "d", "o", "c", "x">>, <<".", "d", "o", "c">>}

\* extract_text_from_file reads a file of unknown extension as plain text
UnknownPathIsPlainText ==
    (/\ e_pc = "done"
     /\ e_exists
     /\ Lower(PathSuffix(e_path)) \notin KnownExtensions)
    => /\ e_res.ok
       /\ e_ran = <<"_extract_from_txt">>
       /\ e_res.text = UniversalNewlines(DecodedText(e_blob.bytes))

\* C15: a file whose extension is none of .txt, .pdf, .docx, .doc is read
\* as plain text and its content returned, both by extract_text_from_file
\* and when it is uploaded through the web page.
C15_UnknownIsPlainText ==
    /\ UnknownPathIsPlainText
    /\ (/\ u_pc[1] = "done"
        /\ Lower(PathSuffix(u_filename[1])) \notin KnownExtensions
        /\ u_blob[1] # EmptyBlob)
       => u_ret[1].kind = "text"

\* C15 (amended): extract_text_from_file reads a file of unknown extension
\* as plain text and returns its content; an upload whose filename does
\* not end in .txt, .pdf or .docx is refused: parse_contents returns None
\* and neither writes a file nor runs an extraction.
C15_UnknownPlainTextByPathOnly ==
    /\ UnknownPathIsPlainText
    /\ (/\ u_pc[1] = "done"
        /\ ~EndsWith(u_filename[1], <<".", "t", "x", "t">>)
        /\ ~EndsWith(u_filename[1], <<".", "p", "d", "f">>)
        /\ ~EndsWith(u_filename[1], <<".", "d", "o", "c", "x">>))
       => (u_ret[1] = RetNone /\ ~u_wrote[1] /\ u_read[1] = EmptyBlob)

C15_Witness ==
    /\ e_pc = "done"
    /\ e_exists
    /\ e_path = Path_md
    /\ e_blob = Bytes_py
    /\ e_ran = <<"_extract_from_txt">>
    /\ e_res = Extracted(<<"p", "y", " ">>)

\* the module was loaded with no api_key argument and no OPENAI_API_KEY
NoCredential ==
    /\ p_pc # "boot"
    /\ arg_key \in {NoKey, ""}
    /\ env_key \in {NoKey, ""}

\* without a credential the constructor raised, there is no analyzer, and
\* no analyze call and no remote request was made
NoCredentialNoCall ==
    NoCredential
    => /\ config_error
       /\ ~analyzer
       /\ api_key = NoKey
       /\ ncalls = 0
       /\ pc = "idle"
       /\ requests = <<>>

C17_AnalyzeTerminates ==
    (pc \in {"score", "score_wait", "skills", "skills_wait", "recs",
             "recs_wait"})
    ~> (pc = "done")

\* C18: the texts the caller hands to analyze are the texts of all three
\* prompts: every request of an analysis started from the page carries the
\* job content and the resume content of the click, also when a content is
\* the path of an existing file on the server.
C18_PromptsCarryInputs ==
    p_pc = "analyzing"
    => \A i \in 1..Len(requests) :
          /\ requests[i].job = p_job.text
          /\ requests[i].resume = p_resume.text

\* a failed analysis started from the page ends in the error alert with the
\* results store null and the page ready for the next callback
PageCatchesFailure ==
    [][(p_pc = "analyzing" /\ pc = "done" /\ outcome = "error"
        /\ p_pc' # "analyzing")
       => (section' = "error" /\ results_store' = NoStored
           /\ p_pc' = "ready")]_vars

\* C19: every outcome of analyze is a complete result or a classified
\* error carrying its context (the failing step or check and the cause),
\* and on the page a failed analysis always ends in the error alert.
C19_OutcomesClassified ==
    /\ (pc = "done" /\ outcome = "result")
       => \A k \in ResultKeys : results[k] # Absent
    /\ (pc = "done" /\ outcome = "error")
       => /\ error.type \in {"ValueError", "Exception"}
          /\ error.step \in {"validate", "extract", "score", "skills",
                              "recs"}
          /\ error.cause # "none"
    /\ (p_pc = "ready" /\ section = "error") => results_store = NoStored

\* C20: the recommendations prompt renders the missing_skills list of the
\* skills reply as its elements joined by ", " in their order when the
\* list is non-empty, and as "None identified" when the list is empty or
\* the key is absent from the reply, and only then.
C20_MissingSkillsRendered ==
    (/\ Len(requests) >= 3
     /\ Len(replies) >= 2
     /\ replies[2].kind = "json"
     /\ replies[2].doc.t = "obj")
    => LET v == replies[2].doc.o["missing_skills"]
           line == requests[3].line
       IN /\ (v.t = "list" /\ v.l # <<>>)
             => /\ line = JoinComma(v.l)
                /\ line # "None identified"
          /\ (v = List(<<"aws", "sql">>)) => line = "aws, sql"
          /\ (v = List(<<"sql", "aws">>)) => line = "sql, aws"
          /\ (v = Absent \/ v = List(<<>>)) => line = "None identified"

C20_Witness ==
    /\ Len(requests) >= 3
    /\ Len(replies) >= 2
    /\ replies[2].kind = "json"
    /\ replies[2].doc.t = "obj"
    /\ replies[2].doc.o["missing_skills"] = List(<<"sql", "aws">>)
    /\ requests[3].line = "sql, aws"

\* the keys a dict has
PresentKeys(rec) == {k \in AllKeys : rec[k] # Absent}

\* the member names of a serialized object
MemberNames(content) == {content[i][1] : i \in 1..Len(content)}

\* C21: the record analyze returns, the record the page stores and the
\* exported JSON object have exactly the eight AnalysisResult keys, each
\* once, whatever other keys the remote replies carried.
C21_ExactlyEightFields ==
    /\ (pc = "done" /\ outcome = "result") => PresentKeys(results) = ResultKeys
    /\ results_store.some => PresentKeys(results_store.rec) = ResultKeys
    /\ exported.some
       => /\ MemberNames(exported.content) = ResultKeys
          /\ Len(exported.content) = Cardinality(ResultKeys)

\* an analysis all three of whose replies carried another key has returned,
\* after an earlier result was stored and exported
C21_Witness ==
    /\ pc = "done"
    /\ outcome = "result"
    /\ Len(replies) = 3
    /\ \A i \in 1..3 : replies[i].doc.o["extra"] = Str(<<"x">>)
    /\ results["extra"] = Absent
    /\ results_store.some
    /\ exported.some
    /\ exported.content[1] = <<"similarity_score", results_store.rec["similarity_score"]>>

\* the call returned text after PyPDF2 had run
FallbackReturned ==
    /\ e_pc = "done"
    /\ e_exists
    /\ Lower(PathSuffix(e_path)) = <<".", "p", "d", "f">>
    /\ e_res.ok
    /\ \E i \in 1..Len(e_ran) : e_ran[i] = "PyPDF2"

\* C22: text returned after the PyPDF2 fallback ran is the text of the
\* PyPDF2 pages, each followed by a newline, and nothing else: nothing
\* pdfplumber gathered before it raised is in it.
C22_FallbackTextOnly ==
    FallbackReturned
    => e_res.text = PyPdfPages(e_blob.pdf.pypdf, 0, 1)

\* the same, over the files on which pdfplumber gathers no text at all
C22_WithoutGatheredText ==
    (FallbackReturned
     /\ PlumberPages(e_blob.pdf.plumber, e_blob.pdf.plumberFail, 1) = <<>>)
    => e_res.text = PyPdfPages(e_blob.pdf.pypdf, 0, 1)

\* pdfplumber raised after a page of text and PyPDF2 read the same page
C22_PageTwice ==
    /\ FallbackReturned
    /\ Raises(e_blob.pdf.plumber, e_blob.pdf.plumberFail)
    /\ Len(e_blob.pdf.plumber) >= 1
    /\ Len(e_blob.pdf.pypdf) = 1
    /\ e_blob.pdf.plumber[1] = e_blob.pdf.pypdf[1]
    /\ e_res.text = e_blob.pdf.plumber[1] \o <<"\n">>
                      \o e_blob.pdf.pypdf[1] \o <<"\n">>

\* the store holds a record exactly while the page shows a result
StoreOnlyWithResult == results_store.some <=> section = "results"

\* a step of analyze_resume that ends a click without an analysis
ClickWithoutAnalysis ==
    /\ p_pc = "ready"
    /\ p_pc' = "ready"
    /\ Falsy(job_store) \/ Falsy(resume_store) \/ ~analyzer
    /\ <<p_job, p_resume, section, results_store>>'
          # <<p_job, p_resume, section, results_store>>

\* a step of analyze_resume that ends a click after its analysis
ClickAfterAnalysis == p_pc = "analyzing" /\ p_pc' = "ready"

\* C23: the results store is non-null only after a click whose analyze call
\* returned a result, and then holds that result; a click with a missing
\* content or without an analyzer sets it to null and starts no analyze
\* call and no remote request; a click whose analysis raised sets it to
\* null; a Download click exports the record of the store only, so never a
\* result older than the latest click's outcome.
C23_StoreFollowsLatestClick ==
    /\ []StoreOnlyWithResult
    /\ [][ClickWithoutAnalysis
            => /\ results_store' = NoStored
               /\ section' \in {"provide_both", "not_configured"}
               /\ ncalls' = ncalls
               /\ requests' = requests
               /\ pc' = pc]_vars
    /\ [][ClickAfterAnalysis
            => /\ results_store'.some
                  => (outcome = "result" /\ results_store'.rec = results)
               /\ outcome = "error" => results_store' = NoStored]_vars
    /\ [][exported' # exported
            => /\ results_store.some
               /\ section = "results"
               /\ exported' = Export(Dumps(results_store.rec))]_vars

\* a result was exported, and a later click with a missing content has
\* emptied the store without another analyze call
C23_Witness ==
    /\ exported.some
    /\ p_pc = "ready"
    /\ section = "provide_both"
    /\ results_store = NoStored
    /\ ncalls = 1

====
